---- MODULE Spec2Model ----
(***************************************************************************)
(* EchoSpot: the background proximity task (utils/LocationService), the    *)
(* notification tracker (utils/notification) and the foreground screens    *)
(* that share the AsyncStorage keys with them.                             *)
(*                                                                         *)
(* Time is in milliseconds.  Coordinates are in thousandths of a degree;   *)
(* every point of the model lies on the meridian of longitude 0.           *)
(* An awaited storage or notification call takes effect in the step that   *)
(* resumes the caller; the synchronous code up to the next await belongs   *)
(* to the same step.                                                       *)
(***************************************************************************)
EXTENDS Integers, Sequences, FiniteSets, TLC

\* ---------------------------------------------------------------- bounds
\* number of clock steps of a behaviour
MaxTicks == 2
\* number of times the tab layout mounts in one process
MaxMounts == 2

\* ------------------------------------------------------ program constants
NOTIFICATION_COOLDOWN == 60000
LOCATION_THRESHOLD == 50
\* 15 * 60 * 1000
PENDING_MAX_AGE == 900000
MetersPerMilliDegree == 111

\* the clock advances in half cooldown windows; at start the epoch is further
\* back than one window
TickMs == NOTIFICATION_COOLDOWN \div 2
StartTime == NOTIFICATION_COOLDOWN
MaxTime == StartTime + MaxTicks * TickMs

\* JS undefined for an optional numeric field (range, hidden_until)
Undefined == -1

\* AsyncStorage: getItem of a key that was never set resolves to null
Null == [has |-> FALSE]
Item(v) == [has |-> TRUE, v |-> v]

\* ------------------------------------------------------------ environment
\* Files known to the backend (GET /audio/user/files) or recorded by the
\* user on RecordScreen.  hidden_until is a timestamp; range is optional.
\* x is a record of the backend with latitude = 200; w is a point pressed on
\* a wrapped copy of the world on the map of RecordScreen (longitude = 181).
NoteIds == {"a", "b", "r", "x", "w"}
IdOrder == <<"a", "b", "r", "x", "w">>
Catalogue ==
  [a |-> [latitude |-> 0, longitude |-> 0, range |-> 111,       hidden_until |-> 30000],
   b |-> [latitude |-> 1, longitude |-> 0, range |-> Undefined, hidden_until |-> 30000],
   r |-> [latitude |-> 1, longitude |-> 0, range |-> 111,       hidden_until |-> 120000],
   x |-> [latitude |-> 200000, longitude |-> 0, range |-> 111,  hidden_until |-> 30000],
   w |-> [latitude |-> 0, longitude |-> 181000, range |-> 111,  hidden_until |-> 30000]]
InitiallyUploaded == {"a", "b", "x"}
Recordable == {"r"}
OffWorld == {"w"}
\* position fixes delivered by the platform
Fixes == {1, 2}

Inv == {"t1", "t2"}
Callers == {"ui"}
\* the callback of LOCATION_TRACKING_TASK (audioUploadService.ts)
Trackers == {"lt"}
Threads == Inv \cup Callers \cup Trackers

VARIABLES
  now,                  \* Date.now()
  storage,              \* AsyncStorage: key -> Null | Item(value)
  notificationTracker,  \* module-level tracker of utils/notification
  lastNotification,     \* content last handed to scheduleNotificationAsync,
                        \* with the batch and the fix of the caller
  th,                   \* per async call: position and locals
  voiceNotes,           \* MapScreen state
  location,             \* MapScreen state (latitude of the last position)
  recSavedNotes,        \* RecordScreen state savedNotes
  uploaded,             \* ids the backend returns
  evicted,              \* ids removed from 'savedNotes' by the task
  platform,             \* expo TaskManager and Location of the device
  hiddenNotes,          \* MapScreen state: fetched notes that are time-locked
  loaded                \* ids TriggeredNotesScreen has put on the screen

vars == <<now, storage, notificationTracker, lastNotification, th,
          voiceNotes, location, recSavedNotes, uploaded, evicted, platform,
          hiddenNotes, loaded>>

Keys == {"savedNotes", "triggeredNotes", "pendingNotifications",
         "last_proximity_notification", "notifiedNotes",
         "backgroundTrackingEnabled"}

\* ---------------------------------------------------------------- helpers
Abs(x) == IF x < 0 THEN -x ELSE x

Ids(s) == {s[k].id : k \in 1..Len(s)}

\* great-circle distance in metres of two points of the same meridian
calculateDistance(lat1, lon1, lat2, lon2) ==
  MetersPerMilliDegree * Abs(lat1 - lat2)

\* ------------------------------------------------- the background task
\* the time lock is not looked at
isUnlocked_noTimeCheck(note, t) == TRUE

\* line 767: !note.hidden_until || new Date(note.hidden_until) <= new Date()
isUnlocked(note, t) ==
  note.hidden_until = Undefined \/ note.hidden_until <= t

\* the boundary is excluded
withinThreshold_strict(distance, proximityThreshold) ==
  proximityThreshold # Undefined /\ distance < proximityThreshold

\* line 770: distance <= undefined is false
withinThreshold(distance, proximityThreshold) ==
  proximityThreshold # Undefined /\ distance <= proximityThreshold

\* the isDiscovered test of line 750 is missing
triggers_ignoresDiscovered(note, latitude, longitude, t) ==
  /\ withinThreshold(calculateDistance(latitude, longitude,
                                       note.latitude, note.longitude),
                     note.range)
  /\ isUnlocked(note, t)

\* lines 748-785 for one note: does it go to triggeredNotes
triggers(note, latitude, longitude, t) ==
  /\ ~note.isDiscovered
  /\ withinThreshold(calculateDistance(latitude, longitude,
                                       note.latitude, note.longitude),
                     note.range)
  /\ isUnlocked(note, t)

RECURSIVE triggeredOf(_, _, _, _)
triggeredOf(notes, latitude, longitude, t) ==
  IF notes = <<>> THEN <<>>
  ELSE (IF triggers(Head(notes), latitude, longitude, t)
        THEN <<[id |-> Head(notes).id,
                distance |-> calculateDistance(latitude, longitude,
                               Head(notes).latitude, Head(notes).longitude)]>>
        ELSE <<>>) \o triggeredOf(Tail(notes), latitude, longitude, t)

RECURSIVE notesToKeepOf_keepsDiscovered(_, _, _, _)
\* entries already flagged isDiscovered stay in the list
notesToKeepOf_keepsDiscovered(notes, latitude, longitude, t) ==
  IF notes = <<>> THEN <<>>
  ELSE (IF ~Head(notes).isDiscovered
           /\ triggers(Head(notes), latitude, longitude, t)
        THEN <<>> ELSE <<Head(notes)>>)
       \o notesToKeepOf_keepsDiscovered(Tail(notes), latitude, longitude, t)

\* the three keys are written after every evaluation
hasTriggered_always(triggeredNotes) == TRUE

\* line 788: triggeredNotes.length > 0
hasTriggered(triggeredNotes) == triggeredNotes # <<>>

RECURSIVE notesToKeepOf(_, _, _, _)
notesToKeepOf(notes, latitude, longitude, t) ==
  IF notes = <<>> THEN <<>>
  ELSE (IF Head(notes).isDiscovered
           \/ triggers(Head(notes), latitude, longitude, t)
        THEN <<>> ELSE <<Head(notes)>>)
       \o notesToKeepOf(Tail(notes), latitude, longitude, t)

\* ------------------------------------------------------------------ Init
\* TaskManager of a fresh process: nothing is defined; defineTaskCalls counts
\* the calls of TaskManager.defineTask for BACKGROUND_LOCATION_TASK and
\* defineLocationTaskCalls the calls of defineLocationTask
NoTasks ==
  [isTaskDefined |-> FALSE, defineTaskCalls |-> 0, defineLocationTaskCalls |-> 0,
   updatesStarted |-> FALSE]

NoNotification ==
  [type |-> "none", count |-> 0, noteIds |-> {}, newNoteIds |-> {},
   batch |-> {}, latitude |-> 0]

IdleThread ==
  [pc |-> "idle", result |-> "none", latitude |-> 0,
   savedNotes |-> <<>>, triggeredNotes |-> <<>>, notesToKeep |-> <<>>,
   evalNow |-> 0, timestamp |-> 0, count |-> 0, noteIds |-> {},
   newNoteIds |-> {}, sendNow |-> 0, toStore |-> Null,
   note |-> "none", notifiedNotes |-> {}]

Init ==
  /\ now = StartTime
  /\ storage = [k \in Keys |-> Null]
  /\ notificationTracker = [lastNotificationTime |-> 0, notifiedNoteIds |-> {}]
  /\ lastNotification = NoNotification
  /\ th = [t \in Threads |-> IdleThread]
  /\ voiceNotes = <<>>
  /\ location = Undefined
  /\ recSavedNotes = <<>>
  /\ uploaded = InitiallyUploaded
  /\ evicted = {}
  /\ platform = NoTasks
  /\ hiddenNotes = <<>>
  /\ loaded = {}

\* ------------------------------------------ utils/notification (tracker)
\* line 230: now - lastNotificationTime < NOTIFICATION_COOLDOWN
cooldownActive(tracker, t) ==
  t - tracker.lastNotificationTime < NOTIFICATION_COOLDOWN

\* line 236: noteIds.filter(id => !notifiedNoteIds.has(id))
newNoteIds(tracker, noteIds) ==
  {id \in noteIds : id \notin tracker.notifiedNoteIds}

\* lines 229-242: the call returns false before anything is scheduled
suppressed(tracker, t, noteIds) ==
  \/ cooldownActive(tracker, t)
  \/ (noteIds # {} /\ newNoteIds(tracker, noteIds) = {})

\* lines 250-253: data.noteIds of the scheduled notification
contentNoteIds(tracker, noteIds) == noteIds

\* the ids of the call are not added
trackerAfterSend_timeOnly(tracker, t, noteIds) ==
  [lastNotificationTime |-> t, notifiedNoteIds |-> tracker.notifiedNoteIds]

\* lines 262-264
trackerAfterSend(tracker, t, noteIds) ==
  [lastNotificationTime |-> t,
   notifiedNoteIds |-> tracker.notifiedNoteIds \cup noteIds]

\* lines 162-165: dataToStore
dataToStore(tracker) ==
  [lastNotificationTime |-> tracker.lastNotificationTime,
   notifiedNoteIds |-> tracker.notifiedNoteIds]

\* lines 149-152: the tracker built from the parsed item
trackerFromStored(parsed) ==
  [lastNotificationTime |-> parsed.lastNotificationTime,
   notifiedNoteIds |-> parsed.notifiedNoteIds]

\* sendProximityNotification, synchronous part up to the first await
\* (lines 226-260): thread record after the call started
sendBegin(r, count, noteIds) ==
  IF suppressed(notificationTracker, now, noteIds)
  THEN [r EXCEPT !.pc = "returned", !.result = "suppressed",
                 !.count = count, !.noteIds = noteIds, !.sendNow = now,
                 !.newNoteIds = newNoteIds(notificationTracker, noteIds)]
  ELSE [r EXCEPT !.pc = "schedule", !.result = "running",
                 !.count = count, !.noteIds = noteIds, !.sendNow = now,
                 !.newNoteIds = newNoteIds(notificationTracker, noteIds)]

\* scheduleNotificationAsync resolved; lines 262-267 up to the setItem
SendScheduled(t) ==
  /\ th[t].pc = "schedule"
  /\ lastNotification' =
       [type |-> "proximity", count |-> th[t].count,
        noteIds |-> contentNoteIds(notificationTracker, th[t].noteIds),
        newNoteIds |-> th[t].newNoteIds,
        batch |-> Ids(th[t].triggeredNotes), latitude |-> th[t].latitude]
  /\ notificationTracker' =
       trackerAfterSend(notificationTracker, th[t].sendNow, th[t].noteIds)
  /\ th' = [th EXCEPT ![t].pc = "saveState", ![t].result = "sent",
                      ![t].toStore = Item(dataToStore(notificationTracker'))]
  /\ UNCHANGED <<now, storage, voiceNotes, location, recSavedNotes,
                 uploaded, evicted, platform,
                 hiddenNotes, loaded>>

\* the failed emission takes the pending record back
SendScheduleFails_rollsBack(t) ==
  /\ th[t].pc = "schedule"
  /\ storage' = [storage EXCEPT !["pendingNotifications"] = Null]
  /\ th' = [th EXCEPT ![t].pc = "returned", ![t].result = "sendFailed"]
  /\ UNCHANGED <<now, notificationTracker, lastNotification, voiceNotes,
                 location, recSavedNotes, uploaded, evicted, platform,
                 hiddenNotes, loaded>>

\* scheduleNotificationAsync rejected; caught at line 271
SendScheduleFails(t) ==
  /\ th[t].pc = "schedule"
  /\ th' = [th EXCEPT ![t].pc = "returned", ![t].result = "sendFailed"]
  /\ UNCHANGED <<now, storage, notificationTracker, lastNotification,
                 voiceNotes, location, recSavedNotes, uploaded, evicted, platform,
                 hiddenNotes, loaded>>

\* saveNotificationState: setItem resolved (line 166)
StateSaved(t) ==
  /\ th[t].pc = "saveState"
  /\ storage' = [storage EXCEPT !["last_proximity_notification"] = th[t].toStore]
  /\ th' = [th EXCEPT ![t].pc = "returned", ![t].toStore = Null]
  /\ UNCHANGED <<now, notificationTracker, lastNotification, voiceNotes,
                 location, recSavedNotes, uploaded, evicted, platform,
                 hiddenNotes, loaded>>

\* saveNotificationState: setItem rejected; caught at line 167
StateSaveFails(t) ==
  /\ th[t].pc = "saveState"
  /\ th' = [th EXCEPT ![t].pc = "returned", ![t].toStore = Null]
  /\ UNCHANGED <<now, storage, notificationTracker, lastNotification,
                 voiceNotes, location, recSavedNotes, uploaded, evicted, platform,
                 hiddenNotes, loaded>>

\* the async call settled: its frame is gone
Return(t) ==
  /\ th[t].pc = "returned"
  /\ th' = [th EXCEPT ![t] = IdleThread]
  /\ UNCHANGED <<now, storage, notificationTracker, lastNotification,
                 voiceNotes, location, recSavedNotes, uploaded, evicted, platform,
                 hiddenNotes, loaded>>

\* ---------------------------------- background task, one step per await
TaskUnchanged == UNCHANGED <<now, storage, notificationTracker, lastNotification,
                             voiceNotes, location, recSavedNotes, uploaded,
                             evicted, platform, hiddenNotes, loaded>>

\* the error payload is not looked at
TaskError_fallsThrough(i) ==
  /\ th[i].pc = "idle"
  /\ th' = [th EXCEPT ![i].pc = "getItem", ![i].result = "error",
                      ![i].latitude = 1]
  /\ TaskUnchanged

\* lines 713-716: error payload
TaskError(i) ==
  /\ th[i].pc = "idle"
  /\ th' = [th EXCEPT ![i].pc = "returned", ![i].result = "error"]
  /\ TaskUnchanged

\* lines 718-721: no data
TaskNoData(i) ==
  /\ th[i].pc = "idle"
  /\ th' = [th EXCEPT ![i].pc = "returned", ![i].result = "nodata"]
  /\ TaskUnchanged

\* lines 724-730: locations is empty
TaskNoLocation(i) ==
  /\ th[i].pc = "idle"
  /\ th' = [th EXCEPT ![i].pc = "returned", ![i].result = "nolocation"]
  /\ TaskUnchanged

\* lines 724-725: data has no locations field; locations[0] throws outside
\* the try block and the promise of the callback rejects
TaskNoLocations(i) ==
  /\ th[i].pc = "idle"
  /\ th' = [th EXCEPT ![i].pc = "returned", ![i].result = "thrown"]
  /\ TaskUnchanged

\* lines 724-737: a fix arrived, getItem('savedNotes') is awaited
TaskBegin(i, lat) ==
  /\ th[i].pc = "idle"
  /\ th' = [th EXCEPT ![i].pc = "getItem", ![i].result = "running",
                      ![i].latitude = lat]
  /\ TaskUnchanged

\* the catch block empties the list
TaskLoadFails_writesEmpty(i) ==
  /\ th[i].pc = "getItem"
  /\ storage' = [storage EXCEPT !["savedNotes"] = Item(<<>>)]
  /\ th' = [th EXCEPT ![i].pc = "returned", ![i].result = "caught"]
  /\ UNCHANGED <<now, notificationTracker, lastNotification, voiceNotes,
                 location, recSavedNotes, uploaded, evicted, platform,
                 hiddenNotes, loaded>>

\* line 737 rejected; caught at line 812
TaskLoadFails(i) ==
  /\ th[i].pc = "getItem"
  /\ th' = [th EXCEPT ![i].pc = "returned", ![i].result = "caught"]
  /\ TaskUnchanged

\* line 744: the item is not valid JSON, JSON.parse throws; caught at line 812
TaskParseFails(i) ==
  /\ th[i].pc = "getItem"
  /\ storage["savedNotes"].has
  /\ th' = [th EXCEPT ![i].pc = "returned", ![i].result = "caught"]
  /\ TaskUnchanged

\* lines 737-792: getItem resolved, the loop ran, the first setItem is awaited
TaskLoad(i) ==
  /\ th[i].pc = "getItem"
  /\ IF ~storage["savedNotes"].has
     THEN th' = [th EXCEPT ![i].pc = "returned", ![i].result = "nonotes"]
     ELSE LET savedNotes == storage["savedNotes"].v
              triggeredNotes == triggeredOf(savedNotes, th[i].latitude, 0, now)
              notesToKeep == notesToKeepOf(savedNotes, th[i].latitude, 0, now)
          IN th' = [th EXCEPT
                 ![i].savedNotes = savedNotes,
                 ![i].triggeredNotes = triggeredNotes,
                 ![i].notesToKeep = notesToKeep,
                 ![i].evalNow = now,
                 ![i].pc = IF hasTriggered(triggeredNotes)
                           THEN "setTriggered" ELSE "returned",
                 ![i].result = IF hasTriggered(triggeredNotes)
                               THEN "running" ELSE "notrigger"]
  /\ TaskUnchanged

\* a setItem of lines 792-801 rejected; caught at line 812, where the locals
\* of the try block are out of scope
TaskWriteFails(i) ==
  /\ th[i].pc \in {"setTriggered", "setSaved", "setPending"}
  /\ th' = [th EXCEPT ![i] = [IdleThread EXCEPT !.pc = "returned",
                                                !.result = "writeCaught",
                                                !.latitude = th[i].latitude]]
  /\ TaskUnchanged

\* line 792 resolved
TaskSetTriggered(i) ==
  /\ th[i].pc = "setTriggered"
  /\ storage' = [storage EXCEPT !["triggeredNotes"] = Item(th[i].triggeredNotes)]
  /\ th' = [th EXCEPT ![i].pc = "setSaved"]
  /\ UNCHANGED <<now, notificationTracker, lastNotification, voiceNotes,
                 location, recSavedNotes, uploaded, evicted, platform,
                 hiddenNotes, loaded>>

\* line 795 resolved; lines 798-801 build the record with new Date()
TaskSetSaved(i) ==
  /\ th[i].pc = "setSaved"
  /\ storage' = [storage EXCEPT !["savedNotes"] = Item(th[i].notesToKeep)]
  /\ evicted' = evicted \cup Ids(th[i].triggeredNotes)
  /\ th' = [th EXCEPT ![i].pc = "setPending", ![i].timestamp = now]
  /\ UNCHANGED <<now, notificationTracker, lastNotification, voiceNotes,
                 location, recSavedNotes, uploaded, platform,
                 hiddenNotes, loaded>>

\* line 798 resolved; line 806 calls sendProximityNotification(length)
TaskSetPending(i) ==
  /\ th[i].pc = "setPending"
  /\ storage' = [storage EXCEPT !["pendingNotifications"] =
                   Item([count |-> Len(th[i].triggeredNotes),
                         timestamp |-> th[i].timestamp])]
  /\ th' = [th EXCEPT ![i] = sendBegin([th[i] EXCEPT !.timestamp = 0],
                                       Len(th[i].triggeredNotes), {})]
  /\ UNCHANGED <<now, notificationTracker, lastNotification, voiceNotes,
                 location, recSavedNotes, uploaded, evicted, platform,
                 hiddenNotes, loaded>>


\* ------------------------------------- calls of the exported tracker API
\* sendProximityNotification(count, noteIds) called from the foreground
CallSend(c, noteIds) ==
  /\ th[c].pc = "idle"
  /\ th' = [th EXCEPT ![c] = sendBegin(th[c], Cardinality(noteIds), noteIds)]
  /\ TaskUnchanged

\* initNotificationTracker (lines 144-157): getItem resolved, tracker replaced
trackerAfterInit(tracker, item) ==
  IF item.has THEN trackerFromStored(item.v) ELSE tracker

InitNotificationTracker ==
  /\ notificationTracker' =
       trackerAfterInit(notificationTracker,
                        storage["last_proximity_notification"])
  /\ UNCHANGED <<now, storage, lastNotification, th, voiceNotes, location,
                 recSavedNotes, uploaded, evicted, platform,
                 hiddenNotes, loaded>>

\* configureNotifications (lines 173-222): without the permission it returns
\* before line 215; with it, it awaits initNotificationTracker
ConfigureNotifications(granted) ==
  /\ notificationTracker' =
       IF granted
       THEN trackerAfterInit(notificationTracker,
                             storage["last_proximity_notification"])
       ELSE notificationTracker
  /\ UNCHANGED <<now, storage, lastNotification, th, voiceNotes, location,
                 recSavedNotes, uploaded, evicted, platform,
                 hiddenNotes, loaded>>

\* lines 281-283
trackerAfterReset(tracker, noteIds) ==
  [tracker EXCEPT !.notifiedNoteIds = tracker.notifiedNoteIds \ noteIds]

\* resetNotificationForNotes (lines 278-286) up to the awaited setItem
ResetNotificationForNotes(c, noteIds) ==
  /\ th[c].pc = "idle"
  /\ notificationTracker' = trackerAfterReset(notificationTracker, noteIds)
  /\ th' = [th EXCEPT ![c].pc = "saveState", ![c].result = "reset",
                      ![c].noteIds = noteIds,
                      ![c].toStore = Item(dataToStore(notificationTracker'))]
  /\ UNCHANGED <<now, storage, lastNotification, voiceNotes, location,
                 recSavedNotes, uploaded, evicted, platform,
                 hiddenNotes, loaded>>

\* resetAllNotificationTracking (lines 289-296) up to the awaited setItem
ResetAllNotificationTracking(c) ==
  /\ th[c].pc = "idle"
  /\ notificationTracker' = [lastNotificationTime |-> 0, notifiedNoteIds |-> {}]
  /\ th' = [th EXCEPT ![c].pc = "saveState", ![c].result = "resetAll",
                      ![c].toStore = Item(dataToStore(notificationTracker'))]
  /\ UNCHANGED <<now, storage, lastNotification, voiceNotes, location,
                 recSavedNotes, uploaded, evicted, platform,
                 hiddenNotes, loaded>>

\* --------------------------------------------------------- MapScreen
\* index.tsx lines 93-106, coordinates in thousandths of a degree
isValidCoordinate(lat, lng) ==
  /\ lat # Undefined /\ lng # Undefined
  /\ lat >= -90000 /\ lat <= 90000
  /\ lng >= -180000 /\ lng <= 180000

\* index.tsx lines 343-361
mapCalculateDistance(lat1, lon1, lat2, lon2) ==
  MetersPerMilliDegree * Abs(lat1 - lat2)

\* index.tsx lines 214-224: the VoiceNote built from a fetched file
voiceNoteOf(id, file) ==
  [id |-> id, latitude |-> file.latitude, longitude |-> file.longitude,
   isDiscovered |-> FALSE, hiddenUntil |-> file.hidden_until,
   hidden_until |-> Undefined, range |-> file.range]

\* index.tsx lines 211-212: now >= new Date(file.hidden_until)
isAvailable(file, t) ==
  file.hidden_until # Undefined /\ t >= file.hidden_until

RECURSIVE availableNotesOf(_, _, _)
\* index.tsx lines 190-231 over the files of the response
availableNotesOf(ids, files, t) ==
  IF ids = <<>> THEN <<>>
  ELSE (IF /\ Head(ids) \in files
           /\ isValidCoordinate(Catalogue[Head(ids)].latitude,
                                Catalogue[Head(ids)].longitude)
           /\ isAvailable(Catalogue[Head(ids)], t)
        THEN <<voiceNoteOf(Head(ids), Catalogue[Head(ids)])>> ELSE <<>>)
       \o availableNotesOf(Tail(ids), files, t)

RECURSIVE hiddenNotesListOf(_, _, _)
\* index.tsx lines 190-231: the valid files that are still time-locked
hiddenNotesListOf(ids, files, t) ==
  IF ids = <<>> THEN <<>>
  ELSE (IF /\ Head(ids) \in files
           /\ isValidCoordinate(Catalogue[Head(ids)].latitude,
                                Catalogue[Head(ids)].longitude)
           /\ ~isAvailable(Catalogue[Head(ids)], t)
        THEN <<voiceNoteOf(Head(ids), Catalogue[Head(ids)])>> ELSE <<>>)
       \o hiddenNotesListOf(Tail(ids), files, t)

\* loadMapData (lines 134-159) with a successful fetchAudioFilesRefresh
\* (lines 162-240)
LoadMapData(lat) ==
  /\ location' = lat
  /\ voiceNotes' = availableNotesOf(IdOrder, uploaded, now)
  /\ hiddenNotes' = hiddenNotesListOf(IdOrder, uploaded, now)
  /\ storage' = [storage EXCEPT !["savedNotes"] = Item(voiceNotes')]
  /\ UNCHANGED <<now, notificationTracker, lastNotification, th, recSavedNotes,
                 uploaded, evicted, platform, loaded>>

\* index.tsx line 449: note.range || LOCATION_THRESHOLD
selectionThreshold(note) ==
  IF note.range = Undefined \/ note.range = 0 THEN LOCATION_THRESHOLD
  ELSE note.range

\* index.tsx lines 453-455
markDiscovered(notes, id) ==
  [k \in 1..Len(notes) |->
     IF notes[k].id = id THEN [notes[k] EXCEPT !.isDiscovered = TRUE]
     ELSE notes[k]]

\* handleSingleNoteSelection (index.tsx lines 432-459)
HandleSingleNoteSelection(k) ==
  /\ k \in 1..Len(voiceNotes)
  /\ location # Undefined
  /\ isValidCoordinate(voiceNotes[k].latitude, voiceNotes[k].longitude)
  /\ mapCalculateDistance(location, 0, voiceNotes[k].latitude,
                          voiceNotes[k].longitude)
       <= selectionThreshold(voiceNotes[k])
  /\ ~voiceNotes[k].isDiscovered
  /\ voiceNotes' = markDiscovered(voiceNotes, voiceNotes[k].id)
  /\ storage' = [storage EXCEPT !["savedNotes"] = Item(voiceNotes')]
  /\ UNCHANGED <<now, notificationTracker, lastNotification, th, location,
                 recSavedNotes, uploaded, evicted, platform,
                 hiddenNotes, loaded>>

\* --------------------------------------------------------- RecordScreen
\* lines 913-921: the note built from the upload result
newNoteOf(id, uploadResult) ==
  [id |-> id, latitude |-> uploadResult.latitude,
   longitude |-> uploadResult.longitude, isDiscovered |-> FALSE,
   hiddenUntil |-> Undefined, hidden_until |-> uploadResult.hidden_until,
   range |-> uploadResult.range]

\* saveVoiceNote (lines 871-945) with a successful upload
SaveVoiceNote(id) ==
  /\ id \notin uploaded
  /\ uploaded' = uploaded \cup {id}
  /\ recSavedNotes' = Append(recSavedNotes, newNoteOf(id, Catalogue[id]))
  /\ storage' = [storage EXCEPT !["savedNotes"] = Item(recSavedNotes')]
  /\ UNCHANGED <<now, notificationTracker, lastNotification, th, voiceNotes,
                 location, evicted, platform,
                 hiddenNotes, loaded>>

\* ------------------------------------------------------------------ time
Tick ==
  /\ now + TickMs <= MaxTime
  /\ now' = now + TickMs
  /\ UNCHANGED <<storage, notificationTracker, lastNotification, th, voiceNotes,
                 location, recSavedNotes, uploaded, evicted, platform,
                 hiddenNotes, loaded>>

\* ------------------------------------------------------------------ Next
SendIds == {"a", "b"}
\* wake-ups of the task do not overlap in Spec
Scheduled == {"t1"}

\* the background task and the foreground screens over the shared keys
Next ==
  \/ \E i \in Scheduled : TaskError(i)
  \/ \E i \in Scheduled : TaskNoData(i)
  \/ \E i \in Scheduled : TaskNoLocation(i)
  \/ \E i \in Scheduled, lat \in Fixes : TaskBegin(i, lat)
  \/ \E i \in Scheduled : TaskLoadFails(i)
  \/ \E i \in Scheduled : TaskLoad(i)
  \/ \E i \in Scheduled : TaskSetTriggered(i)
  \/ \E i \in Scheduled : TaskSetSaved(i)
  \/ \E i \in Scheduled : TaskSetPending(i)
  \/ \E t \in Scheduled : SendScheduled(t)
  \/ \E t \in Scheduled : SendScheduleFails(t)
  \/ \E t \in Scheduled : StateSaved(t)
  \/ \E t \in Scheduled : StateSaveFails(t)
  \/ \E t \in Scheduled : Return(t)
  \/ \E lat \in Fixes : LoadMapData(lat)
  \/ \E k \in 1..Len(voiceNotes) : HandleSingleNoteSelection(k)
  \/ \E id \in Recordable : SaveVoiceNote(id)
  \/ Tick

Spec == Init /\ [][Next]_vars

\* the exported functions of utils/notification called by concurrent callers
NextDedup ==
  \/ \E c \in Callers, ids \in SUBSET SendIds : CallSend(c, ids)
  \/ \E c \in Callers : SendScheduled(c)
  \/ \E c \in Callers : SendScheduleFails(c)
  \/ \E c \in Callers : StateSaved(c)
  \/ \E c \in Callers : StateSaveFails(c)
  \/ \E c \in Callers : Return(c)
  \/ InitNotificationTracker
  \/ \E granted \in BOOLEAN : ConfigureNotifications(granted)
  \/ \E c \in Callers, ids \in SUBSET SendIds : ResetNotificationForNotes(c, ids)
  \/ \E c \in Callers : ResetAllNotificationTracking(c)
  \/ Tick

SpecDedup == Init /\ [][NextDedup]_vars

\* ------------------------------------------- process and task registration
\* every call registers the callback again
shouldDefine_always(p) == TRUE

\* LocationService line 709: !TaskManager.isTaskDefined(BACKGROUND_LOCATION_TASK)
shouldDefine(p) == ~p.isTaskDefined

\* defineLocationTask (LocationService lines 707-817), called by the effect
\* of TabLayout (_layout.tsx line 21) each time the layout mounts
DefineLocationTask ==
  /\ platform.defineLocationTaskCalls < MaxMounts
  /\ platform' =
       IF shouldDefine(platform)
       THEN [platform EXCEPT
               !.isTaskDefined = TRUE,
               !.defineTaskCalls = @ + 1,
               !.defineLocationTaskCalls = @ + 1]
       ELSE [platform EXCEPT !.defineLocationTaskCalls = @ + 1]
  /\ UNCHANGED <<now, storage, notificationTracker, lastNotification, th,
                 voiceNotes, location, recSavedNotes, uploaded, evicted,
                 hiddenNotes, loaded>>

\* the process is killed and started again (location updates started with
\* the OS go on): module state (notification.js
\* lines 134-137), component state and the task registry are fresh,
\* AsyncStorage and the notifications already shown stay
Restart ==
  /\ notificationTracker' = [lastNotificationTime |-> 0, notifiedNoteIds |-> {}]
  /\ th' = [t \in Threads |-> IdleThread]
  /\ voiceNotes' = <<>>
  /\ location' = Undefined
  /\ recSavedNotes' = <<>>
  /\ hiddenNotes' = <<>>
  /\ platform' = [NoTasks EXCEPT !.updatesStarted = platform.updatesStarted]
  /\ UNCHANGED <<now, storage, lastNotification, uploaded, evicted, loaded>>

\* the platform delivers a fix to the registered task
WakeUp(i, lat) ==
  /\ platform.isTaskDefined
  /\ TaskBegin(i, lat)

\* a process that is killed and restarted while location updates go on
NextRestart ==
  \/ DefineLocationTask
  \/ Restart
  \/ \E i \in Scheduled, lat \in Fixes : WakeUp(i, lat)
  \/ \E i \in Scheduled : TaskLoad(i)
  \/ \E i \in Scheduled : TaskSetTriggered(i)
  \/ \E i \in Scheduled : TaskSetSaved(i)
  \/ \E i \in Scheduled : TaskSetPending(i)
  \/ \E t \in Scheduled : SendScheduled(t)
  \/ \E t \in Scheduled : StateSaved(t)
  \/ \E t \in Scheduled : Return(t)
  \/ \E lat \in Fixes : LoadMapData(lat)
  \/ InitNotificationTracker
  \/ Tick

SpecRestart == Init /\ [][NextRestart]_vars

\* ----------------------------- TabLayout: setupBackgroundServices
\* every record is surfaced, whatever its age
isRecent_always(t, timestamp) == TRUE

\* _layout.tsx line 55: now.getTime() - timestamp.getTime() < 15 * 60 * 1000
isRecent(t, timestamp) == t - timestamp < PENDING_MAX_AGE

SendResults == {"sent", "sendFailed", "suppressed"}

\* _layout.tsx line 56: const { count, noteIds = [] } = pendingNotifications
pendingNoteIds(record) ==
  IF "noteIds" \in DOMAIN record THEN record.noteIds ELSE {}

\* _layout.tsx line 28: configureNotifications resolved
ActivationConfigured(c, granted) ==
  /\ th[c].pc = "idle"
  /\ notificationTracker' =
       IF granted
       THEN trackerAfterInit(notificationTracker,
                             storage["last_proximity_notification"])
       ELSE notificationTracker
  /\ th' = [th EXCEPT ![c].pc = "initTracker", ![c].result = "running"]
  /\ UNCHANGED <<now, storage, lastNotification, voiceNotes, location,
                 recSavedNotes, uploaded, evicted, platform,
                 hiddenNotes, loaded>>

\* _layout.tsx lines 32-47: initNotificationTracker resolved; the restart of
\* the tracking touches none of the keys of the model
ActivationTrackerInit(c) ==
  /\ th[c].pc = "initTracker"
  /\ notificationTracker' =
       trackerAfterInit(notificationTracker,
                        storage["last_proximity_notification"])
  /\ th' = [th EXCEPT ![c].pc = "getPending"]
  /\ UNCHANGED <<now, storage, lastNotification, voiceNotes, location,
                 recSavedNotes, uploaded, evicted, platform,
                 hiddenNotes, loaded>>

\* _layout.tsx lines 47-62: getItem('pendingNotifications') resolved
ActivationGetPending(c) ==
  /\ th[c].pc = "getPending"
  /\ LET item == storage["pendingNotifications"] IN
     IF ~item.has
     THEN th' = [th EXCEPT ![c].pc = "returned", ![c].result = "nopending"]
     ELSE IF isRecent(now, item.v.timestamp)
          THEN th' = [th EXCEPT ![c] =
                        sendBegin([th[c] EXCEPT !.timestamp = item.v.timestamp],
                                  item.v.count, pendingNoteIds(item.v))]
          ELSE th' = [th EXCEPT ![c].pc = "remove", ![c].result = "stale",
                                ![c].timestamp = item.v.timestamp]
  /\ TaskUnchanged

\* _layout.tsx lines 57-62: sendProximityNotification settled, removeItem is
\* awaited
ActivationSendReturned(c) ==
  /\ th[c].pc = "returned"
  /\ th[c].result \in SendResults
  /\ th' = [th EXCEPT ![c].pc = "remove"]
  /\ TaskUnchanged

\* _layout.tsx line 62: removeItem('pendingNotifications') resolved
ActivationRemove(c) ==
  /\ th[c].pc = "remove"
  /\ storage' = [storage EXCEPT !["pendingNotifications"] = Null]
  /\ th' = [th EXCEPT ![c].pc = "returned", ![c].result = "consumed",
                      ![c].timestamp = 0]
  /\ UNCHANGED <<now, notificationTracker, lastNotification, voiceNotes,
                 location, recSavedNotes, uploaded, evicted, platform,
                 hiddenNotes, loaded>>

\* _layout.tsx lines 68-80: the rest of setupBackgroundServices only logs
ActivationDone(c) ==
  /\ th[c].pc = "returned"
  /\ th[c].result \in {"consumed", "nopending"}
  /\ th' = [th EXCEPT ![c] = IdleThread]
  /\ TaskUnchanged

\* the app stays in the background for the length of the staleness window
Sleep ==
  /\ now <= MaxTime
  /\ now' = now + PENDING_MAX_AGE
  /\ UNCHANGED <<storage, notificationTracker, lastNotification, th, voiceNotes,
                 location, recSavedNotes, uploaded, evicted, platform,
                 hiddenNotes, loaded>>

\* ------------------------------------------ TriggeredNotesScreen (part_004)
\* loadTriggeredNotes, line 73: getItem('triggeredNotes') resolved; null
\* sets the error and returns
ScreenGetTriggered(c) ==
  /\ th[c].pc = "idle"
  /\ LET item == storage["triggeredNotes"] IN
     IF ~item.has
     THEN th' = [th EXCEPT ![c].pc = "returned", ![c].result = "nonotes"]
     ELSE th' = [th EXCEPT ![c].pc = "getToken", ![c].result = "loading",
                           ![c].triggeredNotes = item.v]
  /\ TaskUnchanged

\* lines 82-103: getItem('accessToken') resolved; without a token the screen
\* redirects to the login, with one it parses the list and shows it (setNotes)
ScreenGotToken(c, token) ==
  /\ th[c].pc = "getToken"
  /\ IF ~token
     THEN /\ th' = [th EXCEPT ![c].pc = "returned", ![c].result = "login",
                              ![c].triggeredNotes = <<>>]
          /\ loaded' = loaded
     ELSE /\ th' = [th EXCEPT ![c].pc = "removePending",
                              ![c].triggeredNotes = <<>>]
          /\ loaded' = loaded \cup Ids(th[c].triggeredNotes)
  /\ UNCHANGED <<now, storage, notificationTracker, lastNotification,
                 voiceNotes, location, recSavedNotes, uploaded, evicted,
                 platform, hiddenNotes>>

\* line 106: removeItem('pendingNotifications') resolved
ScreenRemoved(c) ==
  /\ th[c].pc = "removePending"
  /\ storage' = [storage EXCEPT !["pendingNotifications"] = Null]
  /\ th' = [th EXCEPT ![c].pc = "returned", ![c].result = "loaded"]
  /\ UNCHANGED <<now, notificationTracker, lastNotification, voiceNotes,
                 location, recSavedNotes, uploaded, evicted, platform,
                 hiddenNotes, loaded>>

\* the task, the two screens that fill 'savedNotes' and the screen that
\* shows the triggered notes
NextTriggered ==
  \/ \E i \in Scheduled, lat \in Fixes : TaskBegin(i, lat)
  \/ \E i \in Scheduled : TaskLoad(i)
  \/ \E i \in Scheduled : TaskSetTriggered(i)
  \/ \E i \in Scheduled : TaskSetSaved(i)
  \/ \E i \in Scheduled : TaskSetPending(i)
  \/ \E i \in Scheduled : SendScheduled(i)
  \/ \E i \in Scheduled : StateSaved(i)
  \/ \E t \in Scheduled \cup Callers : Return(t)
  \/ \E lat \in Fixes : LoadMapData(lat)
  \/ \E id \in Recordable : SaveVoiceNote(id)
  \/ \E c \in Callers : ScreenGetTriggered(c)
  \/ \E c \in Callers, token \in BOOLEAN : ScreenGotToken(c, token)
  \/ \E c \in Callers : ScreenRemoved(c)
  \/ Tick

SpecTriggered == Init /\ [][NextTriggered]_vars

\* ------------------------- per-note notifications (audioUploadService.ts)
\* the fixes of the tracking task: at 0 both a and b are in range
TrackerFixes == {0, 1}

\* line 359: LOCATION_THRESHOLD * 111000 with LOCATION_THRESHOLD = 0.1000
DefaultRangeInMeters == 11100

\* the calls of sendNotification in flight, in the order the forEach of
\* line 354 starts them
CallSlots == <<"t1", "t2">>

\* line 356
distanceInMeters(latitude, longitude, note) ==
  MetersPerMilliDegree * Abs(latitude - note.latitude)

\* line 359: note.range || (LOCATION_THRESHOLD * 111000)
rangeInMeters(note) ==
  IF note.range # Undefined /\ note.range # 0 THEN note.range
  ELSE DefaultRangeInMeters

\* line 364: note.hidden_until && new Date(note.hidden_until) > new Date()
isHidden(note, t) ==
  note.hidden_until # Undefined /\ note.hidden_until > t

\* line 366
withinRange(note, latitude, longitude, t) ==
  /\ distanceInMeters(latitude, longitude, note) < rangeInMeters(note)
  /\ ~isHidden(note, t)

\* the ids in the JSON map stored under NOTIFIED_NOTES_KEY
storedNotifiedNotes ==
  IF storage["notifiedNotes"].has THEN storage["notifiedNotes"].v ELSE {}

\* lines 340-349: the callback starts with a batch of locations and awaits
\* getItem("savedNotes")
TrackingBegin(k, lat) ==
  /\ th[k].pc = "idle"
  /\ th' = [th EXCEPT ![k].pc = "getItem", ![k].latitude = lat,
                      ![k].result = "running"]
  /\ TaskUnchanged

\* lines 350-370: the forEach calls sendNotification(note) for every note in
\* range without awaiting it; each call runs up to its await of
\* getItem(NOTIFIED_NOTES_KEY) (line 294). At most one batch of calls is in
\* flight.
TrackingLoaded(k) ==
  /\ th[k].pc = "getItem"
  /\ \A t \in Inv : th[t].pc = "idle"
  /\ LET item == storage["savedNotes"]
         near == IF item.has
                 THEN SelectSeq(item.v,
                        LAMBDA note : withinRange(note, th[k].latitude, 0, now))
                 ELSE <<>>
     IN /\ Len(near) <= Len(CallSlots)
        /\ th' = [t \in Threads |->
                   IF t = k
                   THEN [th[k] EXCEPT !.pc = "returned", !.latitude = 0,
                                      !.result = IF item.has THEN "fired"
                                                 ELSE "nonotes"]
                   ELSE IF \E n \in 1..Len(near) : CallSlots[n] = t
                   THEN LET n == CHOOSE n \in 1..Len(near) : CallSlots[n] = t
                        IN [th[t] EXCEPT !.pc = "getNotified",
                                         !.result = "running",
                                         !.note = near[n].id]
                   ELSE th[t]]
  /\ TaskUnchanged

\* lines 294-301: getItem(NOTIFIED_NOTES_KEY) resolved; a note found in the
\* map is skipped, otherwise scheduleNotificationAsync is awaited
SendNotificationGot(t) ==
  /\ th[t].pc = "getNotified"
  /\ IF th[t].note \in storedNotifiedNotes
     THEN th' = [th EXCEPT ![t].pc = "returned", ![t].result = "skipped",
                           ![t].note = "none"]
     ELSE th' = [th EXCEPT ![t].pc = "scheduleNote",
                           ![t].notifiedNotes = storedNotifiedNotes]
  /\ TaskUnchanged

\* lines 304-315: the notification is out; the call adds the id to the map it
\* read and awaits setItem
SendNotificationScheduled(t) ==
  /\ th[t].pc = "scheduleNote"
  /\ th' = [th EXCEPT ![t].pc = "setNotified",
                      ![t].notifiedNotes = @ \cup {th[t].note}]
  /\ TaskUnchanged

\* line 315: setItem(NOTIFIED_NOTES_KEY) resolved
SendNotificationStored(t) ==
  /\ th[t].pc = "setNotified"
  /\ storage' = [storage EXCEPT !["notifiedNotes"] = Item(th[t].notifiedNotes)]
  /\ th' = [th EXCEPT ![t].pc = "returned", ![t].result = "notified",
                      ![t].note = "none", ![t].notifiedNotes = {}]
  /\ UNCHANGED <<now, notificationTracker, lastNotification, voiceNotes,
                 location, recSavedNotes, uploaded, evicted, platform,
                 hiddenNotes, loaded>>

\* the tracking task of audioUploadService.ts and the sync that fills
\* 'savedNotes'
NextPerNote ==
  \/ \E k \in Trackers, lat \in TrackerFixes : TrackingBegin(k, lat)
  \/ \E k \in Trackers : TrackingLoaded(k)
  \/ \E t \in Inv : SendNotificationGot(t)
  \/ \E t \in Inv : SendNotificationScheduled(t)
  \/ \E t \in Inv : SendNotificationStored(t)
  \/ \E t \in Inv \cup Trackers : Return(t)
  \/ \E lat \in Fixes : LoadMapData(lat)
  \/ Tick

SpecPerNote == Init /\ [][NextPerNote]_vars

\* ------------------------------ background tracking switch (part_010)
\* the value stored under 'backgroundTrackingEnabled'
trackingFlag == storage["backgroundTrackingEnabled"]

\* a call of one of the three exported functions begins and awaits its first
\* platform call: restart and stop ask hasStartedLocationUpdatesAsync
\* (lines 823, 935), start asks for the foreground permission (line 881)
TrackingCall(c, fn) ==
  /\ th[c].pc = "idle"
  /\ th' = [th EXCEPT ![c].pc = CASE fn = "restart" -> "restartHasStarted"
                                  [] fn = "start" -> "startForeground"
                                  [] fn = "stop" -> "stopHasStarted",
                      ![c].result = "running"]
  /\ TaskUnchanged

\* lines 823-829 and 935-941: hasStarted resolved; running updates are
\* stopped first
HasStartedResolved(c) ==
  /\ th[c].pc \in {"restartHasStarted", "stopHasStarted"}
  /\ th' = [th EXCEPT ![c].pc =
               IF th[c].pc = "restartHasStarted"
               THEN (IF platform.updatesStarted THEN "restartStop"
                     ELSE "restartForeground")
               ELSE (IF platform.updatesStarted THEN "stopStop"
                     ELSE "stopSetFlag")]
  /\ TaskUnchanged

\* lines 827 and 939: stopLocationUpdatesAsync resolved
UpdatesStopped(c) ==
  /\ th[c].pc \in {"restartStop", "stopStop"}
  /\ platform' = [platform EXCEPT !.updatesStarted = FALSE]
  /\ th' = [th EXCEPT ![c].pc = IF th[c].pc = "restartStop"
                                THEN "restartForeground" ELSE "stopSetFlag"]
  /\ UNCHANGED <<now, storage, notificationTracker, lastNotification,
                 voiceNotes, location, recSavedNotes, uploaded, evicted,
                 hiddenNotes, loaded>>

\* lines 832-836 and 881-885: requestForegroundPermissionsAsync resolved
ForegroundPermission(c, granted) ==
  /\ th[c].pc \in {"restartForeground", "startForeground"}
  /\ th' = [th EXCEPT ![c].pc =
               IF ~granted THEN "returned"
               ELSE IF th[c].pc = "restartForeground" THEN "restartBackground"
               ELSE "startBackground",
             ![c].result = IF granted THEN "running" ELSE "false"]
  /\ TaskUnchanged

\* lines 838-842 and 887-891: requestBackgroundPermissionsAsync resolved
BackgroundPermission(c, granted) ==
  /\ th[c].pc \in {"restartBackground", "startBackground"}
  /\ th' = [th EXCEPT ![c].pc =
               IF ~granted THEN "returned"
               ELSE IF th[c].pc = "restartBackground" THEN "startUpdates"
               ELSE "startHasStarted",
             ![c].result = IF granted THEN "running" ELSE "false"]
  /\ TaskUnchanged

\* lines 894-900: start finds the updates running and returns what
\* restartBackgroundLocationTracking returns
StartHasStarted(c) ==
  /\ th[c].pc = "startHasStarted"
  /\ th' = [th EXCEPT ![c].pc = IF platform.updatesStarted
                                THEN "restartHasStarted" ELSE "startUpdates"]
  /\ TaskUnchanged

\* lines 852-863 and 910-921: startLocationUpdatesAsync resolved, then
\* setItem('backgroundTrackingEnabled', 'true') is awaited; a rejection goes
\* to the catch, which returns false
UpdatesStarted(c, ok) ==
  /\ th[c].pc = "startUpdates"
  /\ platform' = [platform EXCEPT !.updatesStarted = ok]
  /\ th' = [th EXCEPT ![c].pc = IF ok THEN "setFlag" ELSE "returned",
                      ![c].result = IF ok THEN "running" ELSE "false"]
  /\ UNCHANGED <<now, storage, notificationTracker, lastNotification,
                 voiceNotes, location, recSavedNotes, uploaded, evicted,
                 hiddenNotes, loaded>>

\* lines 863-864, 921-922 and 943-944: setItem resolved, the function returns
\* true
FlagStored(c) ==
  /\ th[c].pc \in {"setFlag", "stopSetFlag"}
  /\ storage' = [storage EXCEPT !["backgroundTrackingEnabled"] =
                   Item(IF th[c].pc = "setFlag" THEN "true" ELSE "false")]
  /\ th' = [th EXCEPT ![c].pc = "returned", ![c].result = "true"]
  /\ UNCHANGED <<now, notificationTracker, lastNotification, voiceNotes,
                 location, recSavedNotes, uploaded, evicted, platform,
                 hiddenNotes, loaded>>

\* isBackgroundLocationTrackingEnabled, lines 951-953: getItem is awaited
EnabledCall(c) ==
  /\ th[c].pc = "idle"
  /\ th' = [th EXCEPT ![c].pc = "enabledGetItem", ![c].result = "running"]
  /\ TaskUnchanged

\* lines 954-963: null and 'false' return false, 'true' asks the platform
EnabledGot(c) ==
  /\ th[c].pc = "enabledGetItem"
  /\ th' = [th EXCEPT ![c].pc = IF trackingFlag = Item("true")
                                THEN "enabledHasStarted" ELSE "returned",
                      ![c].result = IF trackingFlag = Item("true")
                                    THEN "running" ELSE "false"]
  /\ TaskUnchanged

\* lines 960-962: the answer is what hasStartedLocationUpdatesAsync says
EnabledHasStarted(c) ==
  /\ th[c].pc = "enabledHasStarted"
  /\ th' = [th EXCEPT ![c].pc = "returned",
                      ![c].result = IF platform.updatesStarted THEN "true"
                                    ELSE "false"]
  /\ TaskUnchanged

\* the settings screen calling the tracking switch, one call at a time
NextTracking ==
  \/ \E c \in Callers, fn \in {"start", "restart", "stop"} : TrackingCall(c, fn)
  \/ \E c \in Callers : HasStartedResolved(c)
  \/ \E c \in Callers : UpdatesStopped(c)
  \/ \E c \in Callers, granted \in BOOLEAN : ForegroundPermission(c, granted)
  \/ \E c \in Callers, granted \in BOOLEAN : BackgroundPermission(c, granted)
  \/ \E c \in Callers : StartHasStarted(c)
  \/ \E c \in Callers, ok \in BOOLEAN : UpdatesStarted(c, ok)
  \/ \E c \in Callers : FlagStored(c)
  \/ \E c \in Callers : EnabledCall(c)
  \/ \E c \in Callers : EnabledGot(c)
  \/ \E c \in Callers : EnabledHasStarted(c)
  \/ \E c \in Callers : Return(c)
  \/ Tick

SpecTracking == Init /\ [][NextTracking]_vars

\* the task in the background and the tab layout coming to the foreground
NextActivation ==
  \/ \E i \in Scheduled, lat \in Fixes : TaskBegin(i, lat)
  \/ \E i \in Scheduled : TaskLoad(i)
  \/ \E i \in Scheduled : TaskSetTriggered(i)
  \/ \E i \in Scheduled : TaskSetSaved(i)
  \/ \E i \in Scheduled : TaskSetPending(i)
  \/ \E t \in Scheduled \cup Callers : SendScheduled(t)
  \/ \E t \in Scheduled \cup Callers : SendScheduleFails(t)
  \/ \E t \in Scheduled \cup Callers : StateSaved(t)
  \/ \E t \in Scheduled : Return(t)
  \/ \E lat \in Fixes : LoadMapData(lat)
  \/ \E c \in Callers, granted \in BOOLEAN : ActivationConfigured(c, granted)
  \/ \E c \in Callers : ActivationTrackerInit(c)
  \/ \E c \in Callers : ActivationGetPending(c)
  \/ \E c \in Callers : ActivationSendReturned(c)
  \/ \E c \in Callers : ActivationRemove(c)
  \/ \E c \in Callers : ActivationDone(c)
  \/ Tick
  \/ Sleep

SpecActivation == Init /\ [][NextActivation]_vars

\* the task with every payload and every failing storage or notification
\* call, next to the refresh of the map screen
NextFaults ==
  \/ \E i \in Scheduled : TaskError(i)
  \/ \E i \in Scheduled : TaskNoData(i)
  \/ \E i \in Scheduled : TaskNoLocation(i)
  \/ \E i \in Scheduled : TaskNoLocations(i)
  \/ \E i \in Scheduled, lat \in Fixes : TaskBegin(i, lat)
  \/ \E i \in Scheduled : TaskLoadFails(i)
  \/ \E i \in Scheduled : TaskParseFails(i)
  \/ \E i \in Scheduled : TaskLoad(i)
  \/ \E i \in Scheduled : TaskWriteFails(i)
  \/ \E i \in Scheduled : TaskSetTriggered(i)
  \/ \E i \in Scheduled : TaskSetSaved(i)
  \/ \E i \in Scheduled : TaskSetPending(i)
  \/ \E t \in Scheduled : SendScheduled(t)
  \/ \E t \in Scheduled : SendScheduleFails(t)
  \/ \E t \in Scheduled : StateSaved(t)
  \/ \E t \in Scheduled : StateSaveFails(t)
  \/ \E t \in Scheduled : Return(t)
  \/ \E lat \in Fixes : LoadMapData(lat)
  \/ Tick

SpecFaults == Init /\ [][NextFaults]_vars

\* ------------------------------------- MapScreen: one step per await
\* an already discovered note is marked and written again
shouldMark_again(note, distance) == distance <= selectionThreshold(note)

\* index.tsx line 452: distance <= threshold && !note.isDiscovered
shouldMark(note, distance) ==
  distance <= selectionThreshold(note) /\ ~note.isDiscovered

\* handleSingleNoteSelection (index.tsx lines 432-456) up to the awaited
\* setItem, called with the note of a marker
SelectNote(c, k) ==
  /\ th[c].pc = "idle"
  /\ k \in 1..Len(voiceNotes)
  /\ LET note == voiceNotes[k] IN
     IF location = Undefined
        \/ ~isValidCoordinate(note.latitude, note.longitude)
     THEN /\ th' = [th EXCEPT ![c].pc = "returned", ![c].result = "invalid",
                              ![c].note = note.id]
          /\ voiceNotes' = voiceNotes
     ELSE IF shouldMark(note, mapCalculateDistance(location, 0, note.latitude,
                                                   note.longitude))
          THEN /\ voiceNotes' = markDiscovered(voiceNotes, note.id)
               /\ th' = [th EXCEPT ![c].pc = "setSavedNotes",
                                   ![c].result = "marking",
                                   ![c].note = note.id,
                                   ![c].savedNotes = voiceNotes']
          ELSE /\ th' = [th EXCEPT ![c].pc = "returned",
                                   ![c].result = "nowrite",
                                   ![c].note = note.id]
               /\ voiceNotes' = voiceNotes
  /\ UNCHANGED <<now, storage, notificationTracker, lastNotification, location,
                 recSavedNotes, uploaded, evicted, platform, hiddenNotes,
                 loaded>>

\* index.tsx line 456: setItem('savedNotes', updatedNotes) resolved
SelectNoteStored(c) ==
  /\ th[c].pc = "setSavedNotes"
  /\ storage' = [storage EXCEPT !["savedNotes"] = Item(th[c].savedNotes)]
  /\ th' = [th EXCEPT ![c].pc = "returned", ![c].result = "marked"]
  /\ UNCHANGED <<now, notificationTracker, lastNotification, voiceNotes,
                 location, recSavedNotes, uploaded, evicted, platform,
                 hiddenNotes, loaded>>

\* the map screen and the record screen over 'savedNotes'
NextScreens ==
  \/ \E lat \in Fixes : LoadMapData(lat)
  \/ \E id \in Recordable \cup OffWorld : SaveVoiceNote(id)
  \/ \E c \in Callers, k \in 1..Len(voiceNotes) : SelectNote(c, k)
  \/ \E c \in Callers : SelectNoteStored(c)
  \/ \E c \in Callers : Return(c)
  \/ Tick

SpecScreens == Init /\ [][NextScreens]_vars

\* two wake-ups of the task whose awaits interleave; nothing in lines 710-815
\* keeps the second callback from starting while the first is suspended
NextOverlap ==
  \/ \E i \in Inv, lat \in Fixes : TaskBegin(i, lat)
  \/ \E i \in Inv : TaskLoad(i)
  \/ \E i \in Inv : TaskSetTriggered(i)
  \/ \E i \in Inv : TaskSetSaved(i)
  \/ \E i \in Inv : TaskSetPending(i)
  \/ \E t \in Inv : SendScheduled(t)
  \/ \E t \in Inv : StateSaved(t)
  \/ \E t \in Inv : Return(t)
  \/ \E lat \in Fixes : LoadMapData(lat)
  \/ Tick

SpecOverlap == Init /\ [][NextOverlap]_vars

\* ================================================================ claims
\* the per-invocation locals of a task hold an evaluation
Evaluated(i) ==
  th[i].pc \in {"setTriggered", "setSaved", "setPending", "schedule",
                "saveState", "returned"}
  /\ th[i].result \in {"running", "notrigger", "suppressed", "sendFailed", "sent"}

DistanceTo(i, note) ==
  MetersPerMilliDegree * Abs(th[i].latitude - note.latitude)

\* C1: a note that a task invocation triggered and evicted from 'savedNotes'
\* is never triggered by a later invocation, whatever the foreground did in
\* between.
C1_NeverRetriggers ==
  \A i \in Inv :
    th[i].pc = "setTriggered" => Ids(th[i].triggeredNotes) \cap evicted = {}

\* C2: within one evaluation a note that was read with isDiscovered = true is
\* not in the triggered batch, whatever the fix and the radius.
C2_DiscoveredNeverTriggers ==
  \A i \in Inv : \A k \in 1..Len(th[i].savedNotes) :
    th[i].savedNotes[k].isDiscovered
      => th[i].savedNotes[k].id \notin Ids(th[i].triggeredNotes)

\* a discovered, unlocked note with a radius was read at distance 0 and
\* another note of the same list triggered
C2_Witness ==
  \E i \in Inv : \E k \in 1..Len(th[i].savedNotes) :
    /\ Evaluated(i)
    /\ th[i].savedNotes[k].isDiscovered
    /\ th[i].savedNotes[k].range # Undefined
    /\ DistanceTo(i, th[i].savedNotes[k]) = 0
    /\ th[i].triggeredNotes # <<>>

\* C3: a note whose hidden_until is later than the time of the evaluation is
\* not in the batch; an undiscovered note in range whose hidden_until is not
\* later than that time is in the batch.
C3_TimeLock ==
  \A i \in Inv : \A k \in 1..Len(th[i].savedNotes) :
    LET note == th[i].savedNotes[k] IN
    note.hidden_until # Undefined =>
      /\ note.hidden_until > th[i].evalNow
           => note.id \notin Ids(th[i].triggeredNotes)
      /\ (/\ note.hidden_until <= th[i].evalNow
          /\ ~note.isDiscovered
          /\ note.range # Undefined
          /\ DistanceTo(i, note) <= note.range)
           => note.id \in Ids(th[i].triggeredNotes)

\* a locked note was evaluated with the fix exactly at its location
C3_Witness ==
  \E i \in Inv : \E k \in 1..Len(th[i].savedNotes) :
    /\ Evaluated(i)
    /\ th[i].savedNotes[k].hidden_until # Undefined
    /\ th[i].savedNotes[k].hidden_until > th[i].evalNow
    /\ ~th[i].savedNotes[k].isDiscovered
    /\ th[i].savedNotes[k].range # Undefined
    /\ DistanceTo(i, th[i].savedNotes[k]) = 0

\* C4: an undiscovered note with a radius is in the batch exactly when its
\* distance is at most the radius and it is not time-locked, independently of
\* the rest of the list.
C4_TriggerIff ==
  \A i \in Inv : \A k \in 1..Len(th[i].savedNotes) :
    LET note == th[i].savedNotes[k] IN
    (Evaluated(i) /\ ~note.isDiscovered /\ note.range # Undefined) =>
      (note.id \in Ids(th[i].triggeredNotes)
         <=> /\ DistanceTo(i, note) <= note.range
             /\ (note.hidden_until = Undefined
                 \/ note.hidden_until <= th[i].evalNow))

\* a note triggered with its distance equal to its radius
C4_Witness ==
  \E i \in Inv : \E k \in 1..Len(th[i].savedNotes) :
    /\ Evaluated(i)
    /\ ~th[i].savedNotes[k].isDiscovered
    /\ th[i].savedNotes[k].range # Undefined
    /\ DistanceTo(i, th[i].savedNotes[k]) = th[i].savedNotes[k].range
    /\ th[i].savedNotes[k].id \in Ids(th[i].triggeredNotes)

\* C5: an undiscovered, unlocked note without a range triggers when the fix is
\* within the default radius of the note.
C5_DefaultRadius ==
  \A i \in Inv : \A k \in 1..Len(th[i].savedNotes) :
    LET note == th[i].savedNotes[k] IN
    (/\ Evaluated(i)
     /\ ~note.isDiscovered
     /\ note.range = Undefined
     /\ (note.hidden_until = Undefined \/ note.hidden_until <= th[i].evalNow)
     /\ DistanceTo(i, note) <= LOCATION_THRESHOLD)
      => note.id \in Ids(th[i].triggeredNotes)

\* C6: the noteIds carried by an emitted notification were all Fresh when the
\* call of sendProximityNotification started.
C6_OnlyFreshIdsEmitted ==
  lastNotification.noteIds \subseteq lastNotification.newNoteIds

\* C7: a call is suppressed only inside the cooldown window and only when
\* every candidate id is already Notified.
C7_CooldownGate ==
  [][\A t \in Threads :
       (th[t].pc \in {"idle", "setPending"} /\ th'[t].result = "suppressed")
         => /\ now - notificationTracker.lastNotificationTime
                 < NOTIFICATION_COOLDOWN
            /\ th'[t].noteIds \subseteq notificationTracker.notifiedNoteIds]_vars

\* C8: once a notification was shown for a note at some fix, no later cycle
\* at the same fix shows a notification for that note while the dedup state
\* is not reset.
C8_NoSecondNotification ==
  [][\A t \in Inv :
       (th[t].pc = "schedule" /\ th'[t].pc = "saveState"
        /\ lastNotification.latitude = th[t].latitude)
         => Ids(th[t].triggeredNotes) \cap lastNotification.batch = {}]_vars

\* C9: the tracker is updated exactly by a successful emission: then every id
\* of the call is Notified and lastNotificationTime is the call's now; a call
\* that is suppressed or whose emission throws changes neither the tracker
\* nor the persisted state.
C9_CommitIffEmitted ==
  [][\A t \in Threads :
       /\ (th[t].pc = "schedule" /\ th'[t].pc = "saveState")
            => /\ th[t].noteIds \subseteq notificationTracker'.notifiedNoteIds
               /\ notificationTracker'.lastNotificationTime = th[t].sendNow
       /\ (th[t].pc = "schedule" /\ th'[t].result = "sendFailed")
            => /\ notificationTracker' = notificationTracker
               /\ storage' = storage
       /\ (th[t].pc \in {"idle", "setPending"} /\ th'[t].result = "suppressed")
            => /\ notificationTracker' = notificationTracker
               /\ storage'["last_proximity_notification"]
                    = storage["last_proximity_notification"]]_vars

\* an emission for a non-empty list of ids succeeded and they are Notified
C9_Witness ==
  \E t \in Threads :
    /\ th[t].pc = "saveState" /\ th[t].result = "sent"
    /\ th[t].noteIds # {}
    /\ th[t].noteIds \subseteq notificationTracker.notifiedNoteIds
    /\ notificationTracker.lastNotificationTime = th[t].sendNow

\* C10: an id leaves notifiedNoteIds only in a step of
\* resetNotificationForNotes for that id or of resetAllNotificationTracking,
\* and resetNotificationForNotes changes nothing else of the tracker.
C10_OnlyResetForgets ==
  [][/\ \A id \in notificationTracker.notifiedNoteIds
                    \ notificationTracker'.notifiedNoteIds :
          \E c \in Callers :
            /\ th[c].pc = "idle"
            /\ \/ th'[c].result = "resetAll"
               \/ th'[c].result = "reset" /\ id \in th'[c].noteIds
     /\ \A c \in Callers :
          (th[c].pc = "idle" /\ th'[c].result = "reset")
            => notificationTracker' =
                 [notificationTracker EXCEPT !.notifiedNoteIds =
                    notificationTracker.notifiedNoteIds \ th'[c].noteIds]]_vars

\* the emission phase of an invocation is over
EmissionOver(i) == th[i].result \in {"sent", "suppressed", "sendFailed"}

\* C12: within one invocation of the task the write that commits the
\* discovered notes to 'savedNotes' comes after the dedup filtering and the
\* emission of the notification of that invocation.
C12_EmissionBeforeCommit ==
  [][\A i \in Inv :
       (th[i].pc = "setSaved" /\ th'[i].pc = "setPending"
        /\ storage'["savedNotes"] = Item(th[i].notesToKeep))
         => EmissionOver(i)]_vars

\* C13: an invocation that received an error payload returns at once: the
\* persisted keys, the dedup state and the emitted notification are unchanged
\* in every step of that invocation.
C13_ErrorNoSideEffects ==
  [][\A i \in Inv :
       /\ (th[i].pc = "idle" /\ th'[i].result = "error")
            => /\ th'[i].pc = "returned"
               /\ storage' = storage
               /\ notificationTracker' = notificationTracker
               /\ lastNotification' = lastNotification
       /\ (th[i].result = "error" /\ th'[i] # th[i])
            => /\ th'[i] = IdleThread
               /\ storage' = storage
               /\ notificationTracker' = notificationTracker
               /\ lastNotification' = lastNotification]_vars

\* an error payload arrived while 'savedNotes' held a note and a pending
\* record existed
C13_Witness ==
  \E i \in Inv :
    /\ th[i].pc = "returned" /\ th[i].result = "error"
    /\ storage["savedNotes"].has /\ storage["savedNotes"].v # <<>>
    /\ storage["pendingNotifications"].has

\* C14: no invocation of the task callback ends by throwing, whatever the
\* payload and whichever storage or notification call fails.
C14_NeverThrows ==
  \A i \in Inv : th[i].result # "thrown"

\* C15: an invocation whose read or parse of 'savedNotes' failed, or that
\* found the key missing, returns without writing a persisted key, without
\* touching the dedup state and without emitting a notification.
C15_ReadFailureAborts ==
  [][\A i \in Inv :
       /\ (th[i].pc = "getItem" /\ th'[i].result \in {"caught", "nonotes"})
            => /\ th'[i].pc = "returned"
               /\ storage' = storage
               /\ notificationTracker' = notificationTracker
               /\ lastNotification' = lastNotification
       /\ (th[i].result \in {"caught", "nonotes"} /\ th'[i] # th[i])
            => /\ th'[i] = IdleThread
               /\ storage' = storage
               /\ notificationTracker' = notificationTracker
               /\ lastNotification' = lastNotification]_vars

\* the read failed while 'savedNotes' held a note that triggers at the fix
C15_Witness ==
  \E i \in Inv :
    /\ th[i].pc = "returned" /\ th[i].result = "caught"
    /\ storage["savedNotes"].has
    /\ triggeredOf(storage["savedNotes"].v, th[i].latitude, 0, now) # <<>>

\* C16: in an invocation whose emission failed the three writes were made:
\* the triggered notes were removed from 'savedNotes', 'triggeredNotes' holds
\* the batch and 'pendingNotifications' holds its record.
C16_EmissionFailureKeepsDiscovery ==
  \A i \in Inv :
    th[i].result = "sendFailed" =>
      /\ th[i].triggeredNotes # <<>>
      /\ Ids(th[i].triggeredNotes) \subseteq evicted
      /\ storage["triggeredNotes"] = Item(th[i].triggeredNotes)
      /\ storage["pendingNotifications"].has
      /\ storage["pendingNotifications"].v.count = Len(th[i].triggeredNotes)

\* the emission of an invocation with a batch failed
C16_Witness ==
  \E i \in Inv :
    /\ th[i].pc = "returned" /\ th[i].result = "sendFailed"
    /\ th[i].triggeredNotes # <<>>
    /\ storage["savedNotes"] = Item(th[i].notesToKeep)

\* C18: a notification emitted by the task carries exactly the ids of the
\* notes triggered in that invocation, and the pending record written by the
\* invocation has the size of the batch as count and lists the same ids.
C18_CarriesBatchIds ==
  /\ lastNotification.type = "proximity"
       => lastNotification.noteIds = lastNotification.batch
  /\ \A i \in Inv :
       th[i].pc = "schedule" =>
         /\ storage["pendingNotifications"].has
         /\ storage["pendingNotifications"].v.count
              = Len(th[i].triggeredNotes)
         /\ pendingNoteIds(storage["pendingNotifications"].v)
              = Ids(th[i].triggeredNotes)

\* C11: the persisted dedup state binds a restarted process: while the
\* persisted lastNotificationTime T is less than a cooldown ago, a task
\* invocation that reaches sendProximityNotification is suppressed, and a
\* write of the dedup state keeps every id that was persisted before it.
C11_DedupSurvivesRestart ==
  [][LET item == storage["last_proximity_notification"] IN
     item.has =>
       /\ \A i \in Inv :
            (/\ th[i].pc = "setPending"
             /\ th'[i].pc \in {"schedule", "returned"}
             /\ th'[i].result # "writeCaught"
             /\ now - item.v.lastNotificationTime < NOTIFICATION_COOLDOWN)
              => th'[i].result = "suppressed"
       /\ \A t \in Threads :
            (th[t].pc = "saveState"
             /\ storage'["last_proximity_notification"] # item)
              => item.v.notifiedNoteIds
                   \subseteq storage'["last_proximity_notification"]
                                .v.notifiedNoteIds]_vars

\* C20: in one process TaskManager.defineTask is called at most once for the
\* task, it has been called once the first defineLocationTask call returned,
\* and a later defineLocationTask call changes nothing.
C20_RegistrationIdempotent ==
  /\ [](/\ platform.defineTaskCalls <= 1
        /\ platform.defineLocationTaskCalls >= 1
             => (platform.isTaskDefined /\ platform.defineTaskCalls = 1))
  /\ [][(platform.isTaskDefined
         /\ platform'.defineLocationTaskCalls
              > platform.defineLocationTaskCalls)
          => /\ platform'.isTaskDefined
             /\ platform'.defineTaskCalls = platform.defineTaskCalls
             /\ UNCHANGED <<storage, notificationTracker, lastNotification,
                            th,
                 hiddenNotes, loaded>>]_vars

\* defineLocationTask was called a second time in the same process
C20_Witness ==
  /\ platform.defineLocationTaskCalls >= 2
  /\ platform.isTaskDefined
  /\ platform.defineTaskCalls = 1

\* C17: on foreground activation a pending record older than 15 minutes leads
\* to no call of sendProximityNotification, and every activation that read a
\* record, stale or fresh, goes on to remove the key, which is absent when
\* the removal has resolved.
C17_StaleDiscardedAndCleared ==
  [][\A c \in Callers :
       /\ (/\ th[c].pc = "getPending"
           /\ th'[c].pc # "getPending"
           /\ storage["pendingNotifications"].has
           /\ now - storage["pendingNotifications"].v.timestamp
                > PENDING_MAX_AGE)
            => /\ th'[c].pc = "remove"
               /\ lastNotification' = lastNotification
       /\ (/\ th[c].pc = "getPending"
           /\ th'[c].pc # "getPending"
           /\ storage["pendingNotifications"].has)
            => \/ th'[c].pc \in {"remove", "schedule"}
               \/ th'[c].pc = "returned" /\ th'[c].result \in SendResults
       /\ (th[c].pc \in {"schedule", "saveState"} /\ th'[c] # th[c])
            => \/ th'[c].pc = "saveState"
               \/ th'[c].pc = "returned" /\ th'[c].result \in SendResults
       /\ (/\ th[c].pc = "returned"
           /\ th[c].result \in SendResults
           /\ th'[c] # th[c])
            => th'[c].pc = "remove"
       /\ (th[c].pc = "remove" /\ th'[c] # th[c])
            => /\ ~storage'["pendingNotifications"].has
               /\ lastNotification' = lastNotification]_vars

\* a record older than 15 minutes was read and is about to be removed
C17_Witness ==
  \E c \in Callers :
    /\ th[c].pc = "remove" /\ th[c].result = "stale"
    /\ now - th[c].timestamp > PENDING_MAX_AGE
    /\ storage["pendingNotifications"].has

\* an invocation is between its read of 'savedNotes' and its return
InFlight(i) == th[i].pc \notin {"idle", "getItem", "returned"}

\* C19: two invocations in flight at the same time never hold the same note
\* in their triggered batches, and no invocation emits a notification for a
\* batch that shares a note with the batch of the notification emitted last.
C19_InvocationsExclusive ==
  [][/\ \A i \in Inv : \A j \in Inv \ {i} :
          (InFlight(i)' /\ InFlight(j)')
            => Ids(th'[i].triggeredNotes) \cap Ids(th'[j].triggeredNotes) = {}
     /\ \A t \in Inv :
          (th[t].pc = "schedule" /\ th'[t].pc = "saveState")
            => Ids(th[t].triggeredNotes) \cap lastNotification.batch = {}]_vars

\* C21: every note persisted in 'savedNotes' has a latitude in [-90, 90] and
\* a longitude in [-180, 180], whatever syncs of the map screen and saves of
\* the record screen ran.
C21_StoredCoordinatesValid ==
  storage["savedNotes"].has =>
    \A k \in 1..Len(storage["savedNotes"].v) :
      isValidCoordinate(storage["savedNotes"].v[k].latitude,
                        storage["savedNotes"].v[k].longitude)

\* C22: the first selection of an undiscovered note in range sets only its
\* isDiscovered flag and persists the list; a selection of a note that is
\* already discovered writes nothing and changes neither the list nor
\* 'savedNotes'.
C22_MarkDiscoveredIdempotent ==
  [][\A c \in Callers :
       /\ (th[c].pc = "idle" /\ th'[c].result = "marking")
            => /\ \E k \in 1..Len(voiceNotes) :
                    /\ voiceNotes[k].id = th'[c].note
                    /\ ~voiceNotes[k].isDiscovered
                    /\ voiceNotes' =
                         [j \in 1..Len(voiceNotes) |->
                            IF j = k
                            THEN [voiceNotes[j] EXCEPT !.isDiscovered = TRUE]
                            ELSE voiceNotes[j]]
               /\ storage' = storage
       /\ (th[c].pc = "setSavedNotes" /\ th'[c].pc = "returned")
            => /\ storage' = [storage EXCEPT
                                !["savedNotes"] = Item(th[c].savedNotes)]
               /\ voiceNotes' = voiceNotes
       /\ (/\ th[c].pc = "idle"
           /\ th'[c].pc # "idle"
           /\ \E k \in 1..Len(voiceNotes) :
                voiceNotes[k].id = th'[c].note /\ voiceNotes[k].isDiscovered)
            => /\ th'[c].pc = "returned"
               /\ th'[c].result = "nowrite"
               /\ voiceNotes' = voiceNotes
               /\ storage' = storage]_vars

\* a note in range that is discovered and persisted was selected again
C22_Witness ==
  \E c \in Callers : \E k \in 1..Len(voiceNotes) :
    /\ th[c].pc = "returned" /\ th[c].result = "nowrite"
    /\ voiceNotes[k].id = th[c].note
    /\ voiceNotes[k].isDiscovered
    /\ mapCalculateDistance(location, 0, voiceNotes[k].latitude,
                            voiceNotes[k].longitude)
         <= selectionThreshold(voiceNotes[k])
    /\ storage["savedNotes"] = Item(voiceNotes)

\* C23: the list an invocation with a batch writes to 'savedNotes' is the
\* list it read without the entries flagged isDiscovered and without the
\* notes of the batch, the others unchanged and in their order.
C23_KeepsExactlyUntriggered ==
  [][\A i \in Inv :
       (th[i].pc = "setSaved" /\ th'[i].pc = "setPending")
         => storage'["savedNotes"] =
              Item(SelectSeq(th[i].savedNotes,
                             LAMBDA n : /\ ~n.isDiscovered
                                        /\ n.id \notin
                                             Ids(th[i].triggeredNotes)))]_vars

\* an invocation read a discovered note, a note that triggered and a note
\* that did not, and wrote the list
C23_Witness ==
  \E i \in Inv :
    /\ th[i].pc = "setPending"
    /\ th[i].triggeredNotes # <<>>
    /\ th[i].notesToKeep # <<>>
    /\ \E k \in 1..Len(th[i].savedNotes) : th[i].savedNotes[k].isDiscovered
    /\ storage["savedNotes"] = Item(th[i].notesToKeep)

\* C24: an invocation in which no note of the list triggers returns after the
\* evaluation: no key is written, the dedup state is unchanged and nothing is
\* emitted.
C24_NoTriggerNoEffect ==
  [][\A i \in Inv :
       /\ (/\ th[i].pc = "getItem"
           /\ th'[i].pc # "getItem"
           /\ th'[i].result # "caught"
           /\ storage["savedNotes"].has
           /\ \A k \in 1..Len(storage["savedNotes"].v) :
                ~triggers(storage["savedNotes"].v[k], th[i].latitude, 0, now))
            => /\ th'[i].pc = "returned"
               /\ th'[i].result = "notrigger"
               /\ storage' = storage
               /\ notificationTracker' = notificationTracker
               /\ lastNotification' = lastNotification
       /\ (th[i].result = "notrigger" /\ th'[i] # th[i])
            => /\ th'[i] = IdleThread
               /\ storage' = storage
               /\ notificationTracker' = notificationTracker
               /\ lastNotification' = lastNotification]_vars

\* an invocation without a trigger read a list with a discovered entry, and
\* the entry is still in 'savedNotes'
C24_Witness ==
  \E i \in Inv :
    /\ th[i].pc = "returned" /\ th[i].result = "notrigger"
    /\ \E k \in 1..Len(th[i].savedNotes) : th[i].savedNotes[k].isDiscovered
    /\ storage["savedNotes"] = Item(th[i].savedNotes)

\* C25: the write of an invocation to 'savedNotes' loses no note that the
\* record screen appended and that did not trigger, and a save of the record
\* screen puts no evicted note back.
C25_NoNoteLost ==
  [][/\ \A i \in Inv :
          (th[i].pc = "setSaved" /\ th'[i].pc = "setPending"
           /\ storage["savedNotes"].has)
            => \A id \in Ids(recSavedNotes) \cap Ids(storage["savedNotes"].v) :
                 \/ id \in Ids(storage'["savedNotes"].v)
                 \/ id \in Ids(th[i].triggeredNotes)
     /\ recSavedNotes' # recSavedNotes
          => Ids(storage'["savedNotes"].v) \cap evicted = {}]_vars

\* C30: a fetched note that was time-locked at the last sync is triggered by
\* an invocation that evaluates after its hidden_until with the fix inside
\* its radius.
C30_UnlockedNoteIsCandidate ==
  \A i \in Inv :
    Evaluated(i) =>
      \A k \in 1..Len(hiddenNotes) :
        LET note == hiddenNotes[k] IN
        (/\ note.hiddenUntil <= th[i].evalNow
         /\ note.range # Undefined
         /\ DistanceTo(i, note) <= note.range
         /\ note.id \notin evicted)
          => note.id \in Ids(th[i].triggeredNotes)

\* C27: the record that the activation removes from 'pendingNotifications' is
\* the record it read.
C27_RemovesOnlyWhatWasRead ==
  [][\A c \in Callers :
       (/\ th[c].pc = "remove"
        /\ storage["pendingNotifications"].has
        /\ ~storage'["pendingNotifications"].has)
         => storage["pendingNotifications"].v.timestamp = th[c].timestamp]_vars

\* C26: every note that the task evicted from 'savedNotes' is in
\* 'triggeredNotes' until the triggered-notes screen has loaded it.
C26_EvictedStaysUntilLoaded ==
  \A id \in evicted :
    \/ id \in loaded
    \/ /\ storage["triggeredNotes"].has
       /\ id \in Ids(storage["triggeredNotes"].v)

\* C28: a call of sendNotification emits for a note only while the note is
\* not in 'notifiedNotes', and a note recorded in 'notifiedNotes' stays
\* recorded (nothing resets the key here).
C28_NotifiedStaysRecorded ==
  [][/\ \A t \in Inv :
          (th[t].pc = "scheduleNote" /\ th'[t].pc = "setNotified")
            => th[t].note \notin storedNotifiedNotes
     /\ storage["notifiedNotes"].has
          => /\ storage'["notifiedNotes"].has
             /\ storage["notifiedNotes"].v \subseteq
                  storage'["notifiedNotes"].v]_vars

\* C29: between two calls of the tracking switch the flag
\* 'backgroundTrackingEnabled' is 'true' only if the location updates are
\* started.
C29_FlagOnlyWhileStarted ==
  \A c \in Callers :
    (th[c].pc = "idle" /\ trackingFlag = Item("true"))
      => platform.updatesStarted

====
